---- MODULE Spec2Model ----
(***************************************************************************)
(* Progress tracking of pytorch_lightning (trainer/progress.py) and the     *)
(* unwrap functions of overrides/fairscale.py.                             *)
(*                                                                         *)
(* Python objects live in a heap: every Tracker instance is a cell of      *)
(* `heap`, addressed by its position; a Progress is the pair of the        *)
(* addresses of its `total` and `current` Trackers.  Aliasing between      *)
(* objects is therefore visible in the model, as it is in Python.          *)
(* The value None of an Optional[int] counter is written None (-1); the    *)
(* integers the scenarios store in counters are all >= 0.                  *)
(***************************************************************************)
EXTENDS Integers, Sequences, FiniteSets, TLC

\* Bounds of the scenarios.
MaxVal == 2          \* largest integer a direct attribute write stores
MaxCalls == 2        \* increment_F() calls per field on the lone Progress
MaxOps == 4          \* operations in a free interleaving on the validation loop
MaxFitOps == 2       \* operations in a free interleaving on the FitLoopProgress
MaxEpochOps == 8     \* operations in a free interleaving on the training epoch
MaxOptimizers == 2   \* num_optimizers of the BatchLoopProgress
MaxEpochs == 2       \* epochs of a driven run
MaxBatches == 3      \* batches per epoch of a driven run
MaxMutations == 2    \* operations in a free interleaving on the lone Progress
MaxQueryOps == 4     \* operations on the lone OptimizationProgress
MaxStepOps == 3      \* operations in a free interleaving on the optimizer slots
MaxStart == 5        \* largest start value handed to Progress.from_defaults
MaxWrappers == 3     \* wrapper layers around the model handed to the unwrap functions
MaxEvents == 8       \* events a Progress is driven through in lifecycle order

None == -1
Null == <<>>         \* "no such object in this scenario"

Fields == {"ready", "started", "processed", "completed"}

VARIABLES
    heap,          \* Seq of Tracker instances: heap[a] is the Tracker at address a
    constructed,   \* the heap as it was when the scenario's objects were constructed
    tracker,       \* address of the lone Tracker under test (or Null)
    progress,      \* the lone Progress under test (or Null)
    calls,         \* calls[F]: number of increment_F() calls made so far on the
                   \* Progress under observation (`progress`, or train.epoch)
    val,           \* the LoopProgress under test (or Null)
    train,         \* the TrainingLoopProgress under test (or Null)
    pc,            \* the scenario that drives the objects ("validation", "fit",
                   \* "epochs", "mutate", ...) for a free interleaving, else the
                   \* position of the driver (training loop, lifecycle, construction)
    run,           \* that loop's configuration and indices
    last,          \* the operation executed last: [op, key, value]; value is the
                   \* value written, the slot addressed, the value returned or
                   \* the keyword arguments, as the operation has them
    err,           \* outcome of the last operation: "ok" or the exception raised
    steps,         \* number of operations executed (bounded per scenario)
    completions,   \* completions[i].optimizer / .scheduler: number of
                   \* increment_completed() calls made on that Progress of slot i
    optimization,  \* the lone OptimizationProgress under test (or Null)
    second,        \* the FitLoopProgress constructed after `train`/`val` (or Null)
    model          \* the model handed to the unwrap functions (or Null)

vars == <<heap, constructed, tracker, progress, calls, val, train, pc, run, last, err, steps,
          completions, optimization, second, model>>

----------------------------------------------------------------------------
(* class Tracker *)

\* Tracker(ready=.., started=.., processed=.., completed=..): the dataclass
\* constructor; every argument is an int or None.
Tracker(ready, started, processed, completed) ==
    [ready |-> ready, started |-> started,
     processed |-> processed, completed |-> completed]

\* Tracker(): every field defaults to 0.
DefaultTracker == Tracker(0, 0, 0, 0)

\* Values a counter is constructed with in the scenarios: enabled at 0, or disabled.
InitValues == {0, None}

\* Tracker.reset, with the `is not None` tests removed (a plausible slip).
Tracker_reset_all(h, a) ==
    [h EXCEPT ![a] = Tracker(0, 0, 0, 0)]

\* Tracker.reset(self) on the Tracker at address a.
Tracker_reset(h, a) ==
    [h EXCEPT ![a] = Tracker(
        IF h[a].ready # None THEN 0 ELSE h[a].ready,
        IF h[a].started # None THEN 0 ELSE h[a].started,
        IF h[a].processed # None THEN 0 ELSE h[a].processed,
        IF h[a].completed # None THEN 0 ELSE h[a].completed)]

\* Tracker.__setattr__ without its guard (a plausible slip).
Tracker_setattr_unguarded(h, a, key, value) ==
    [heap |-> [h EXCEPT ![a][key] = value], err |-> "ok"]

\* Tracker.__setattr__ with its test inverted, `is not None` (a plausible slip).
Tracker_setattr_inverted(h, a, key, value) ==
    IF h[a][key] # None
    THEN [heap |-> h, err |-> "AttributeError"]
    ELSE [heap |-> [h EXCEPT ![a][key] = value], err |-> "ok"]

\* Tracker.__setattr__(self, key, value) on the Tracker at address a:
\* raises when the attribute currently holds None, stores the value otherwise.
Tracker_setattr(h, a, key, value) ==
    IF h[a][key] = None
    THEN [heap |-> h, err |-> "AttributeError"]
    ELSE [heap |-> [h EXCEPT ![a][key] = value], err |-> "ok"]

----------------------------------------------------------------------------
(* class Progress *)

\* Progress(total=Tracker(..), current=Tracker(..)): allocates the two Trackers.
NewProgress(h, total, current) ==
    [heap |-> h \o <<total, current>>,
     obj  |-> [total |-> Len(h) + 1, current |-> Len(h) + 2]]

\* from_defaults that passes its arguments to `total` only (a plausible slip).
from_defaults_total_only(h, ready, started, processed, completed) ==
    NewProgress(h, Tracker(ready, started, processed, completed), DefaultTracker)

\* Progress.from_defaults(**kwargs): both Trackers built from the same arguments.
from_defaults(h, ready, started, processed, completed) ==
    NewProgress(h, Tracker(ready, started, processed, completed),
                   Tracker(ready, started, processed, completed))

\* The value Tracker(**kwargs) gives field f: the keyword argument when kwargs
\* has one for f, the dataclass default 0 otherwise.
Argument(kwargs, f) ==
    IF f \in DOMAIN kwargs THEN kwargs[f] ELSE 0

\* Progress.from_defaults(**kwargs), kwargs a function from some of the
\* field names to their values.
from_defaults_kwargs(h, kwargs) ==
    from_defaults(h, Argument(kwargs, "ready"), Argument(kwargs, "started"),
                     Argument(kwargs, "processed"), Argument(kwargs, "completed"))

\* Progress.increment_ready(self)
increment_ready(h, p) ==
    IF h[p.total].ready = None \/ h[p.current].ready = None
    THEN h
    ELSE [h EXCEPT ![p.total].ready = @ + 1, ![p.current].ready = @ + 1]

\* increment_started with `and` in place of `or` in its test (a plausible slip):
\* the side that is enabled is bumped before the += on None fails.
increment_started_and(h, p) ==
    IF h[p.total].started = None /\ h[p.current].started = None
    THEN h
    ELSE [h EXCEPT ![p.total].started = IF @ = None THEN @ ELSE @ + 1,
                   ![p.current].started = IF @ = None THEN @ ELSE @ + 1]

\* Progress.increment_started(self)
increment_started(h, p) ==
    IF h[p.total].started = None \/ h[p.current].started = None
    THEN h
    ELSE [h EXCEPT ![p.total].started = @ + 1, ![p.current].started = @ + 1]

\* increment_processed bumping `started`, left over from copying
\* increment_started (a plausible slip).
increment_processed_started(h, p) ==
    IF h[p.total].processed = None \/ h[p.current].processed = None
    THEN h
    ELSE [h EXCEPT ![p.total].started = @ + 1, ![p.current].started = @ + 1]

\* Progress.increment_processed(self)
increment_processed(h, p) ==
    IF h[p.total].processed = None \/ h[p.current].processed = None
    THEN h
    ELSE [h EXCEPT ![p.total].processed = @ + 1, ![p.current].processed = @ + 1]

\* increment_completed that forgets to bump `current` (a plausible slip).
increment_completed_total_only(h, p) ==
    IF h[p.total].completed = None \/ h[p.current].completed = None
    THEN h
    ELSE [h EXCEPT ![p.total].completed = @ + 1]

\* Progress.increment_completed(self)
increment_completed(h, p) ==
    IF h[p.total].completed = None \/ h[p.current].completed = None
    THEN h
    ELSE [h EXCEPT ![p.total].completed = @ + 1, ![p.current].completed = @ + 1]

\* getattr(p, "increment_" + key)()
Increment(h, p, key) ==
    CASE key = "ready"     -> increment_ready(h, p)
      [] key = "started"   -> increment_started(h, p)
      [] key = "processed" -> increment_processed(h, p)
      [] key = "completed" -> increment_completed(h, p)

----------------------------------------------------------------------------
(* The module as imported: the class-level defaults of OptimizationProgress
   are three Progress objects created once, when the class body runs. *)

ClassOptimizer == from_defaults(<<>>, 0, 0, None, 0)
ClassScheduler == from_defaults(ClassOptimizer.heap, 0, None, None, 0)
ClassZeroGrad  == from_defaults(ClassScheduler.heap, 0, 0, None, 0)

\* OptimizationProgress(): the instance's three fields are the class-level
\* default objects themselves (dataclass defaults are not copied).
OptimizationProgress ==
    [optimizer |-> ClassOptimizer.obj,
     scheduler |-> ClassScheduler.obj,
     zero_grad |-> ClassZeroGrad.obj]

\* The heap once the module is imported.
ModuleHeap == ClassZeroGrad.heap

\* optimizer_steps reading the `current` Tracker (a plausible slip).
optimizer_steps_current(h, o) ==
    h[o.optimizer.current].completed

\* OptimizationProgress.optimizer_steps (property): the value of
\* optimizer.total.completed, whatever it is; the body raises nothing.
optimizer_steps(h, o) ==
    h[o.optimizer.total].completed

\* OptimizationProgress.scheduler_steps (property)
scheduler_steps(h, o) ==
    h[o.scheduler.total].completed

----------------------------------------------------------------------------
(* class LoopProgress *)

\* LoopProgress(batch=Progress(total=batch_total)): epoch is the default Progress().
NewLoopProgress(h, batch_total) ==
    LET e == NewProgress(h, DefaultTracker, DefaultTracker)
        b == NewProgress(e.heap, batch_total, DefaultTracker)
    IN  [heap |-> b.heap, obj |-> [epoch |-> e.obj, batch |-> b.obj]]

\* reset_on_epoch that resets the two `total` Trackers (a plausible slip).
LoopProgress_reset_on_epoch_total(h, lp) ==
    Tracker_reset(Tracker_reset(h, lp.batch.total), lp.epoch.total)

\* LoopProgress.reset_on_epoch(self)
LoopProgress_reset_on_epoch(h, lp) ==
    Tracker_reset(Tracker_reset(h, lp.batch.current), lp.epoch.current)

\* increment_epoch_completed with its two statements swapped (a plausible slip).
LoopProgress_increment_epoch_completed_swapped(h, lp) ==
    increment_completed(LoopProgress_reset_on_epoch(h, lp), lp.epoch)

\* LoopProgress.increment_epoch_completed(self)
LoopProgress_increment_epoch_completed(h, lp) ==
    LoopProgress_reset_on_epoch(increment_completed(h, lp.epoch), lp)

----------------------------------------------------------------------------
(* classes OptimizationProgress, BatchLoopProgress *)

\* No copy at all: every slot is the same OptimizationProgress(), whose fields
\* are the class-level defaults (the bug the source's comment warns about).
no_deepcopy(h, o) ==
    [heap |-> h, obj |-> o]

\* copy.deepcopy(o) of an OptimizationProgress o: a new Tracker for each of the
\* six Trackers reachable from o, holding the same values.
deepcopy(h, o) ==
    LET n == Len(h) IN
    [heap |-> h \o <<h[o.optimizer.total], h[o.optimizer.current],
                     h[o.scheduler.total], h[o.scheduler.current],
                     h[o.zero_grad.total], h[o.zero_grad.current]>>,
     obj  |-> [optimizer |-> [total |-> n + 1, current |-> n + 2],
               scheduler |-> [total |-> n + 3, current |-> n + 4],
               zero_grad |-> [total |-> n + 5, current |-> n + 6]]]

\* tuple(deepcopy(OptimizationProgress()) for _ in range(k)), appended to `done`.
RECURSIVE MakeOptimizations(_, _, _)
MakeOptimizations(h, done, k) ==
    IF k = 0
    THEN [heap |-> h, obj |-> done]
    ELSE LET c == deepcopy(h, OptimizationProgress)
         IN  MakeOptimizations(c.heap, Append(done, c.obj), k - 1)

\* BatchLoopProgress(num_optimizers=k), with __post_init__.
NewBatchLoopProgress(h, k) ==
    LET b == NewProgress(h, DefaultTracker, DefaultTracker)
        o == MakeOptimizations(b.heap, <<>>, k)
    IN  [heap |-> o.heap,
         obj  |-> [batch |-> b.obj, optimizer_idx |-> 0,
                   num_optimizers |-> k, optimizations |-> o.obj]]

\* The body of `for opt in optimizations:` in both reset_on_batch methods.
ResetOptimization(h, opt) ==
    Tracker_reset(Tracker_reset(Tracker_reset(h, opt.optimizer.current),
                                opt.scheduler.current),
                  opt.zero_grad.current)

\* for opt in optimizations: ... , from slot i on.
RECURSIVE ResetOptimizations(_, _, _)
ResetOptimizations(h, opts, i) ==
    IF i > Len(opts)
    THEN h
    ELSE ResetOptimizations(ResetOptimization(h, opts[i]), opts, i + 1)

\* reset_on_batch that resets batch.total in place of batch.current (a plausible slip).
BatchLoopProgress_reset_on_batch_total(h, bl) ==
    Tracker_reset(ResetOptimizations(h, bl.optimizations, 1), bl.batch.total)

\* BatchLoopProgress.reset_on_batch(self)
BatchLoopProgress_reset_on_batch(h, bl) ==
    Tracker_reset(ResetOptimizations(h, bl.optimizations, 1), bl.batch.current)

----------------------------------------------------------------------------
(* class TrainingLoopProgress(LoopProgress) *)

\* TrainingLoopProgress(batch_loop=BatchLoopProgress(num_optimizers=k)):
\* the argument is built first, then the default epoch and (inherited) batch.
NewTrainingLoopProgress(h, k) ==
    LET bl == NewBatchLoopProgress(h, k)
        e  == NewProgress(bl.heap, DefaultTracker, DefaultTracker)
        b  == NewProgress(e.heap, DefaultTracker, DefaultTracker)
    IN  [heap |-> b.heap,
         obj  |-> [epoch |-> e.obj, batch |-> b.obj, batch_loop |-> bl.obj]]

\* TrainingLoopProgress.reset_on_batch(self).  __post_init__ always sets
\* batch_loop.optimizations to a tuple, so the `is not None` test passes and
\* the method is the loop over the slots; it has no further statement.
TrainingLoopProgress_reset_on_batch(h, tlp) ==
    ResetOptimizations(h, tlp.batch_loop.optimizations, 1)

\* reset_on_epoch that also calls super().reset_on_epoch() before the cascade
\* (a plausible slip).
TrainingLoopProgress_reset_on_epoch_with_super(h, tlp) ==
    BatchLoopProgress_reset_on_batch(LoopProgress_reset_on_epoch(h, tlp), tlp.batch_loop)

\* reset_on_epoch that calls self.reset_on_batch() in place of
\* self.batch_loop.reset_on_batch() (a plausible slip).
TrainingLoopProgress_reset_on_epoch_own(h, tlp) ==
    TrainingLoopProgress_reset_on_batch(h, tlp)

\* TrainingLoopProgress.reset_on_epoch(self)
TrainingLoopProgress_reset_on_epoch(h, tlp) ==
    BatchLoopProgress_reset_on_batch(h, tlp.batch_loop)

\* increment_epoch_completed that forgets to call reset_on_epoch (a plausible slip).
TrainingLoopProgress_increment_epoch_completed_no_reset(h, tlp) ==
    increment_completed(h, tlp.epoch)

\* TrainingLoopProgress.increment_epoch_completed(self)
TrainingLoopProgress_increment_epoch_completed(h, tlp) ==
    TrainingLoopProgress_reset_on_epoch(increment_completed(h, tlp.epoch), tlp)

----------------------------------------------------------------------------
(* Scenario: one Tracker, written and reset directly
   (test_progress_geattr_setattr, test_progress_reset). *)

NoLast == [op |-> "", key |-> "", value |-> None]
NoCalls == [f \in Fields |-> 0]
NoRun == [num_epochs |-> 0, num_batches |-> 0, epoch |-> 0, batch |-> 0]
NoCompletions(k) == [i \in 1..k |-> [optimizer |-> 0, scheduler |-> 0]]
others == <<completions, optimization, second, model>>

InitTracker ==
    /\ \E r \in InitValues, s \in InitValues, p \in InitValues, c \in InitValues :
          heap = Append(ModuleHeap, Tracker(r, s, p, c))
    /\ constructed = heap
    /\ tracker = Len(ModuleHeap) + 1
    /\ progress = Null
    /\ val = Null
    /\ train = Null
    /\ pc = "idle"
    /\ run = NoRun
    /\ calls = NoCalls
    /\ last = NoLast
    /\ err = "ok"
    /\ steps = 0
    /\ completions = NoCompletions(0)
    /\ optimization = Null
    /\ second = Null
    /\ model = Null

\* tracker.<key> = value
TrackerSet(key, value) ==
    LET r == Tracker_setattr(heap, tracker, key, value) IN
    /\ heap' = r.heap
    /\ err' = r.err
    /\ last' = [op |-> "setattr", key |-> key, value |-> value]
    /\ UNCHANGED <<constructed, tracker, progress, calls, val, train, pc, run, steps, others>>

\* tracker.reset()
TrackerReset ==
    /\ heap' = Tracker_reset(heap, tracker)
    /\ err' = "ok"
    /\ last' = [op |-> "reset", key |-> "", value |-> None]
    /\ UNCHANGED <<constructed, tracker, progress, calls, val, train, pc, run, steps, others>>

NextTracker ==
    \/ \E key \in Fields, value \in (0..MaxVal) \cup {None} : TrackerSet(key, value)
    \/ TrackerReset

SpecTracker == InitTracker /\ [][NextTracker]_vars

----------------------------------------------------------------------------
(* Scenario: one Progress whose two Trackers are constructed with any
   enabled/disabled pattern, driven by its increment methods
   (test_base_progress_increment, test_loop_progress_increment_sequence). *)

InitProgress ==
    /\ \E tr \in InitValues, ts \in InitValues, tp \in InitValues, tc \in InitValues,
          cr \in InitValues, cs \in InitValues, cp \in InitValues, cc \in InitValues :
          LET new == NewProgress(ModuleHeap, Tracker(tr, ts, tp, tc), Tracker(cr, cs, cp, cc))
          IN  heap = new.heap /\ progress = new.obj
    /\ constructed = heap
    /\ tracker = Null
    /\ val = Null
    /\ train = Null
    /\ pc = "idle"
    /\ run = NoRun
    /\ calls = NoCalls
    /\ last = NoLast
    /\ err = "ok"
    /\ steps = 0
    /\ completions = NoCompletions(0)
    /\ optimization = Null
    /\ second = Null
    /\ model = Null

\* progress.increment_<key>()
ProgressIncrement(key) ==
    /\ calls[key] < MaxCalls
    /\ heap' = Increment(heap, progress, key)
    /\ calls' = [calls EXCEPT ![key] = @ + 1]
    /\ err' = "ok"
    /\ last' = [op |-> "increment", key |-> key, value |-> None]
    /\ UNCHANGED <<constructed, tracker, progress, val, train, pc, run, steps, others>>

NextProgress ==
    \/ ProgressIncrement("ready")
    \/ ProgressIncrement("started")
    \/ ProgressIncrement("processed")
    \/ ProgressIncrement("completed")

SpecProgress == InitProgress /\ [][NextProgress]_vars

----------------------------------------------------------------------------
\* C2: when field F is enabled on both progress.total and progress.current,
\* n calls of increment_F() leave progress.total.F = progress.current.F = n.
C2_IncrementCounts ==
    \A f \in Fields :
        (constructed[progress.total][f] # None /\ constructed[progress.current][f] # None)
            => (heap[progress.total][f] = calls[f] /\ heap[progress.current][f] = calls[f])

\* Two increments of a field enabled on both sides, next to a field disabled on one.
C2_Witness ==
    \E f \in Fields, g \in Fields :
        /\ constructed[progress.total][f] # None
        /\ constructed[progress.current][f] # None
        /\ calls[f] >= 2
        /\ heap[progress.total][f] = 2
        /\ constructed[progress.total][g] = None
        /\ calls[g] >= 1

\* C3: when field F is disabled on progress.total or on progress.current,
\* increment_F() raises nothing and changes no field of either Tracker,
\* however often it is called.
C3_DisabledIncrementNoOp ==
    [][(/\ last'.op = "increment"
        /\ \/ heap[progress.total][last'.key] = None
           \/ heap[progress.current][last'.key] = None)
        => (err' = "ok" /\ heap' = heap)]_vars

\* increment_F() was called twice with F disabled on total only; current.F is
\* still 0 although another field has been counted.
C3_Witness ==
    \E g \in Fields :
        /\ last.op = "increment"
        /\ calls[last.key] >= 2
        /\ heap[progress.total][last.key] = None
        /\ heap[progress.current][last.key] = 0
        /\ heap[progress.current][g] > 0

----------------------------------------------------------------------------
(* Operations on the loop objects, as the loops call them.  `last.value` is
   the optimizer slot the operation addresses, when it addresses one. *)

\* The interleaving may take another operation.
MayStep ==
    steps < (CASE pc = "validation" -> MaxOps
               [] pc = "epochs"     -> MaxEpochOps
               [] pc = "mutate"     -> MaxMutations
               [] pc = "optimization" -> MaxQueryOps
               [] pc = "steps"      -> MaxStepOps
               [] OTHER             -> MaxFitOps)

Do(h, op, key, value) ==
    /\ heap' = h
    /\ err' = "ok"
    /\ last' = [op |-> op, key |-> key, value |-> value]
    /\ steps' = steps + 1
    /\ UNCHANGED <<constructed, tracker, progress, val, train, pc, run, optimization, second, model>>

\* val.epoch.increment_<key>()
ValEpochIncrement(key) ==
    /\ MayStep
    /\ Do(Increment(heap, val.epoch, key), "val.epoch.increment", key, None)
    /\ UNCHANGED <<calls, completions>>

\* val.batch.increment_<key>()
ValBatchIncrement(key) ==
    /\ MayStep
    /\ Do(Increment(heap, val.batch, key), "val.batch.increment", key, None)
    /\ UNCHANGED <<calls, completions>>

\* val.increment_epoch_completed()
ValIncrementEpochCompleted ==
    /\ MayStep
    /\ Do(LoopProgress_increment_epoch_completed(heap, val),
          "val.increment_epoch_completed", "", None)
    /\ UNCHANGED <<calls, completions>>

\* val.reset_on_epoch()
ValResetOnEpoch ==
    /\ MayStep
    /\ Do(LoopProgress_reset_on_epoch(heap, val), "val.reset_on_epoch", "", None)
    /\ UNCHANGED <<calls, completions>>

\* train.epoch.increment_<key>()
TrainEpochIncrement(key) ==
    /\ MayStep
    /\ Do(Increment(heap, train.epoch, key), "train.epoch.increment", key, None)
    /\ calls' = [calls EXCEPT ![key] = @ + 1]
    /\ UNCHANGED completions

\* train.batch.increment_<key>(): the batch Progress inherited from LoopProgress
TrainBatchIncrement(key) ==
    /\ MayStep
    /\ Do(Increment(heap, train.batch, key), "train.batch.increment", key, None)
    /\ UNCHANGED <<calls, completions>>

\* train.batch_loop.batch.increment_<key>()
BatchLoopBatchIncrement(key) ==
    /\ MayStep
    /\ Do(Increment(heap, train.batch_loop.batch, key),
          "train.batch_loop.batch.increment", key, None)
    /\ UNCHANGED <<calls, completions>>

Slots == 1..Len(train.batch_loop.optimizations)

\* train.batch_loop.optimizations[i].optimizer.increment_<key>()
OptimizerIncrement(i, key) ==
    /\ MayStep
    /\ Do(Increment(heap, train.batch_loop.optimizations[i].optimizer, key),
          "optimizer.increment", key, i)
    /\ completions' = IF key = "completed"
                         THEN [completions EXCEPT ![i].optimizer = @ + 1]
                         ELSE completions
    /\ UNCHANGED calls

\* train.batch_loop.optimizations[i].scheduler.increment_<key>()
SchedulerIncrement(i, key) ==
    /\ MayStep
    /\ Do(Increment(heap, train.batch_loop.optimizations[i].scheduler, key),
          "scheduler.increment", key, i)
    /\ completions' = IF key = "completed"
                         THEN [completions EXCEPT ![i].scheduler = @ + 1]
                         ELSE completions
    /\ UNCHANGED calls

\* train.batch_loop.optimizations[i].zero_grad.increment_<key>()
ZeroGradIncrement(i, key) ==
    /\ MayStep
    /\ Do(Increment(heap, train.batch_loop.optimizations[i].zero_grad, key),
          "zero_grad.increment", key, i)
    /\ UNCHANGED <<calls, completions>>

\* train.batch_loop.optimizations[i].<which>.current.reset()
SlotCurrentReset(i, which) ==
    /\ MayStep
    /\ Do(Tracker_reset(heap, train.batch_loop.optimizations[i][which].current),
          "slot.current.reset", which, i)
    /\ UNCHANGED <<calls, completions>>

\* train.increment_epoch_completed()
TrainIncrementEpochCompleted ==
    /\ MayStep
    /\ Do(TrainingLoopProgress_increment_epoch_completed(heap, train),
          "train.increment_epoch_completed", "", None)
    /\ calls' = [calls EXCEPT !.completed = @ + 1]
    /\ UNCHANGED completions

\* train.reset_on_epoch()
TrainResetOnEpoch ==
    /\ MayStep
    /\ Do(TrainingLoopProgress_reset_on_epoch(heap, train), "train.reset_on_epoch", "", None)
    /\ UNCHANGED <<calls, completions>>

\* train.reset_on_batch()
TrainResetOnBatch ==
    /\ MayStep
    /\ Do(TrainingLoopProgress_reset_on_batch(heap, train), "train.reset_on_batch", "", None)
    /\ UNCHANGED <<calls, completions>>

\* train.batch_loop.reset_on_batch()
BatchLoopResetOnBatch ==
    /\ MayStep
    /\ Do(BatchLoopProgress_reset_on_batch(heap, train.batch_loop),
          "train.batch_loop.reset_on_batch", "", None)
    /\ UNCHANGED <<calls, completions>>

----------------------------------------------------------------------------
(* Scenario: a validation LoopProgress under any sequence of its operations
   (test_loop_progress_increment_epoch, test_loop_progress_increment_sequence:
   LoopProgress() or LoopProgress(batch=Progress(total=Tracker(started=None)))). *)

InitVal ==
    /\ \E s \in InitValues :
          LET new == NewLoopProgress(ModuleHeap, Tracker(0, s, 0, 0))
          IN  heap = new.heap /\ val = new.obj
    /\ constructed = heap
    /\ tracker = Null
    /\ progress = Null
    /\ calls = NoCalls
    /\ train = Null
    /\ pc = "validation"
    /\ run = NoRun
    /\ last = NoLast
    /\ err = "ok"
    /\ steps = 0
    /\ completions = NoCompletions(0)
    /\ optimization = Null
    /\ second = Null
    /\ model = Null

NextVal ==
    \/ \E key \in Fields : ValEpochIncrement(key)
    \/ \E key \in Fields : ValBatchIncrement(key)
    \/ ValIncrementEpochCompleted
    \/ ValResetOnEpoch

SpecVal == InitVal /\ [][NextVal]_vars

----------------------------------------------------------------------------
(* Scenario: FitLoopProgress(train=TrainingLoopProgress(batch_loop=
   BatchLoopProgress(num_optimizers=k))) under any interleaving of the
   operations of its parts. *)

InitFit ==
    /\ \E k \in 1..MaxOptimizers :
          LET t == NewTrainingLoopProgress(ModuleHeap, k)
              v == NewLoopProgress(t.heap, DefaultTracker)
          IN  heap = v.heap /\ train = t.obj /\ val = v.obj
    /\ constructed = heap
    /\ tracker = Null
    /\ progress = Null
    /\ calls = NoCalls
    /\ pc = "fit"
    /\ run = NoRun
    /\ last = NoLast
    /\ err = "ok"
    /\ steps = 0
    /\ completions = NoCompletions(Len(train.batch_loop.optimizations))
    /\ optimization = Null
    /\ second = Null
    /\ model = Null

NextFit ==
    \/ \E key \in Fields : ValEpochIncrement(key)
    \/ \E key \in Fields : ValBatchIncrement(key)
    \/ ValIncrementEpochCompleted
    \/ ValResetOnEpoch
    \/ \E key \in Fields : TrainEpochIncrement(key)
    \/ \E key \in Fields : TrainBatchIncrement(key)
    \/ \E key \in Fields : BatchLoopBatchIncrement(key)
    \/ \E i \in Slots, key \in Fields : OptimizerIncrement(i, key)
    \/ \E i \in Slots, key \in Fields : SchedulerIncrement(i, key)
    \/ \E i \in Slots, key \in Fields : ZeroGradIncrement(i, key)
    \/ \E i \in Slots, which \in {"optimizer", "scheduler", "zero_grad"} :
          SlotCurrentReset(i, which)
    \/ TrainIncrementEpochCompleted
    \/ TrainResetOnEpoch
    \/ TrainResetOnBatch
    \/ BatchLoopResetOnBatch

SpecFit == InitFit /\ [][NextFit]_vars

----------------------------------------------------------------------------
(* Scenario: the epoch Progress of a TrainingLoopProgress under any sequence
   of its increments and of the loop-level operations of the training loop. *)

InitEpochs ==
    /\ \E k \in 1..MaxOptimizers :
          LET t == NewTrainingLoopProgress(ModuleHeap, k)
              v == NewLoopProgress(t.heap, DefaultTracker)
          IN  heap = v.heap /\ train = t.obj /\ val = v.obj
    /\ constructed = heap
    /\ tracker = Null
    /\ progress = Null
    /\ calls = NoCalls
    /\ pc = "epochs"
    /\ run = NoRun
    /\ last = NoLast
    /\ err = "ok"
    /\ steps = 0
    /\ completions = NoCompletions(Len(train.batch_loop.optimizations))
    /\ optimization = Null
    /\ second = Null
    /\ model = Null

NextEpochs ==
    \/ \E key \in Fields : TrainEpochIncrement(key)
    \/ TrainIncrementEpochCompleted
    \/ TrainResetOnEpoch
    \/ TrainResetOnBatch

SpecEpochs == InitEpochs /\ [][NextEpochs]_vars

----------------------------------------------------------------------------
(* Scenario: the training loop drives `train` through run.num_epochs epochs of
   run.num_batches batches, calling the operations in the lifecycle order:
   per epoch ready, started, the batches, processed, increment_epoch_completed;
   per batch reset_on_batch, then ready, started, processed, completed. *)

InitRun ==
    /\ \E k \in 1..MaxOptimizers :
          LET t == NewTrainingLoopProgress(ModuleHeap, k)
              v == NewLoopProgress(t.heap, DefaultTracker)
          IN  heap = v.heap /\ train = t.obj /\ val = v.obj
    /\ \E e \in 1..MaxEpochs, b \in 1..MaxBatches :
          run = [num_epochs |-> e, num_batches |-> b, epoch |-> 1, batch |-> 1]
    /\ constructed = heap
    /\ tracker = Null
    /\ progress = Null
    /\ calls = NoCalls
    /\ pc = "epoch_ready"
    /\ last = NoLast
    /\ err = "ok"
    /\ steps = 0
    /\ completions = NoCompletions(Len(train.batch_loop.optimizations))
    /\ optimization = Null
    /\ second = Null
    /\ model = Null

RunStep(h, op, key, next_pc, next_run) ==
    /\ heap' = h
    /\ err' = "ok"
    /\ last' = [op |-> op, key |-> key, value |-> None]
    /\ pc' = next_pc
    /\ run' = next_run
    /\ UNCHANGED <<constructed, tracker, progress, calls, val, train, steps, others>>

RunEpochReady ==
    /\ pc = "epoch_ready"
    /\ RunStep(increment_ready(heap, train.epoch),
               "train.epoch.increment", "ready", "epoch_started", run)

RunEpochStarted ==
    /\ pc = "epoch_started"
    /\ RunStep(increment_started(heap, train.epoch),
               "train.epoch.increment", "started", "batch_reset", run)

RunBatchReset ==
    /\ pc = "batch_reset"
    /\ RunStep(TrainingLoopProgress_reset_on_batch(heap, train),
               "train.reset_on_batch", "", "batch_ready", run)

RunBatchReady ==
    /\ pc = "batch_ready"
    /\ RunStep(increment_ready(heap, train.batch_loop.batch),
               "train.batch_loop.batch.increment", "ready", "batch_started", run)

RunBatchStarted ==
    /\ pc = "batch_started"
    /\ RunStep(increment_started(heap, train.batch_loop.batch),
               "train.batch_loop.batch.increment", "started", "batch_processed", run)

RunBatchProcessed ==
    /\ pc = "batch_processed"
    /\ RunStep(increment_processed(heap, train.batch_loop.batch),
               "train.batch_loop.batch.increment", "processed", "batch_completed", run)

RunBatchCompleted ==
    /\ pc = "batch_completed"
    /\ RunStep(increment_completed(heap, train.batch_loop.batch),
               "train.batch_loop.batch.increment", "completed",
               IF run.batch < run.num_batches THEN "batch_reset" ELSE "epoch_processed",
               IF run.batch < run.num_batches
               THEN [run EXCEPT !.batch = @ + 1]
               ELSE [run EXCEPT !.batch = 1])

RunEpochProcessed ==
    /\ pc = "epoch_processed"
    /\ RunStep(increment_processed(heap, train.epoch),
               "train.epoch.increment", "processed", "epoch_completed", run)

RunEpochCompleted ==
    /\ pc = "epoch_completed"
    /\ RunStep(TrainingLoopProgress_increment_epoch_completed(heap, train),
               "train.increment_epoch_completed", "",
               IF run.epoch < run.num_epochs THEN "epoch_ready" ELSE "done",
               IF run.epoch < run.num_epochs THEN [run EXCEPT !.epoch = @ + 1] ELSE run)

NextRun ==
    \/ RunEpochReady
    \/ RunEpochStarted
    \/ RunBatchReset
    \/ RunBatchReady
    \/ RunBatchStarted
    \/ RunBatchProcessed
    \/ RunBatchCompleted
    \/ RunEpochProcessed
    \/ RunEpochCompleted

SpecRun == InitRun /\ [][NextRun]_vars

----------------------------------------------------------------------------
\* C1: a direct write to a field that was disabled (None) when the Tracker was
\* constructed raises the "attribute is meant to be unused" AttributeError and
\* leaves all four fields of the Tracker as they were.
C1_DisabledWriteFails ==
    [][(last'.op = "setattr" /\ constructed[tracker][last'.key] = None)
        => (err' = "AttributeError" /\ heap'[tracker] = heap[tracker])]_vars

\* A write to a constructed-disabled field was refused on a Tracker that holds
\* a non-zero counter elsewhere.
C1_Witness ==
    /\ last.op = "setattr"
    /\ constructed[tracker][last.key] = None
    /\ err = "AttributeError"
    /\ \E f \in Fields : heap[tracker][f] > 0

\* C4: Tracker.reset() never raises, sets every enabled field to 0 and leaves
\* every disabled field disabled, whatever the fields held before.
C4_ResetZeroesEnabled ==
    [][last'.op = "reset"
        => /\ err' = "ok"
           /\ \A f \in Fields :
                 heap'[tracker][f] = (IF heap[tracker][f] = None THEN None ELSE 0)]_vars

\* reset() ran on Tracker(ready=1, started=2, completed=None), the test's case.
C4_Witness ==
    /\ last.op = "reset"
    /\ constructed[tracker] = Tracker(0, 0, 0, None)
    /\ heap[tracker] = Tracker(0, 0, 0, None)

\* C5: with num_optimizers > 1 the optimizer slots share no counters: an
\* increment or a reset on the optimizer, scheduler or zero_grad Progress of
\* slot i leaves every Tracker (total and current) of every other slot unchanged.
SlotOps == {"optimizer.increment", "scheduler.increment", "zero_grad.increment",
            "slot.current.reset"}

SlotTrackers(j) ==
    LET o == train.batch_loop.optimizations[j] IN
    <<heap[o.optimizer.total], heap[o.optimizer.current],
      heap[o.scheduler.total], heap[o.scheduler.current],
      heap[o.zero_grad.total], heap[o.zero_grad.current]>>

C5_SlotsIndependent ==
    [][last'.op \in SlotOps
        => \A j \in Slots : j # last'.value => SlotTrackers(j)' = SlotTrackers(j)]_vars

\* Slot 1's optimizer was incremented twice while slot 2 kept its zeros.
C5_Witness ==
    /\ Len(train.batch_loop.optimizations) > 1
    /\ last.op = "optimizer.increment"
    /\ last.value = 1
    /\ heap[train.batch_loop.optimizations[1].optimizer.total].ready = 2
    /\ heap[train.batch_loop.optimizations[2].optimizer.total].ready = 0
    /\ heap[train.batch_loop.optimizations[2].optimizer.current].ready = 0

\* "Every enabled field of the Tracker at address a is 0."
Cleared(a) == \A f \in Fields : heap[a][f] \in {0, None}

\* C6: after TrainingLoopProgress.reset_on_batch() every enabled field of the
\* current Tracker of optimizer, scheduler and zero_grad of every slot is 0,
\* and so is every enabled field of batch.current.
C6_ResetOnBatchClearsBatch ==
    last.op = "train.reset_on_batch"
        => /\ \A i \in Slots :
                 /\ Cleared(train.batch_loop.optimizations[i].optimizer.current)
                 /\ Cleared(train.batch_loop.optimizations[i].scheduler.current)
                 /\ Cleared(train.batch_loop.optimizations[i].zero_grad.current)
           /\ Cleared(train.batch_loop.batch.current)

\* C7: LoopProgress.increment_epoch_completed() on the validation loop raises
\* epoch.total.completed by exactly 1, leaves every enabled field of
\* epoch.current and of batch.current at 0, and leaves batch.total and the
\* other fields of epoch.total unchanged.
C7_ValEpochCompleted ==
    [][last'.op = "val.increment_epoch_completed"
        => /\ heap'[val.epoch.total].completed = heap[val.epoch.total].completed + 1
           /\ Cleared(val.epoch.current)'
           /\ Cleared(val.batch.current)'
           /\ heap'[val.batch.total] = heap[val.batch.total]
           /\ \A f \in Fields \ {"completed"} :
                 heap'[val.epoch.total][f] = heap[val.epoch.total][f]]_vars

\* The second epoch was completed after batch and epoch increments.
C7_Witness ==
    /\ last.op = "val.increment_epoch_completed"
    /\ heap[val.epoch.total].completed = 2
    /\ heap[val.epoch.total].ready = 1
    /\ heap[val.batch.total].ready = 1
    /\ heap[val.batch.current].ready = 0
    /\ heap[val.epoch.current].completed = 0

\* C10: no field of any total Tracker (epoch, batch, optimizer, scheduler,
\* zero_grad, of the training and of the validation loop) ever decreases, and
\* the reset operations change no total Tracker at all.
TotalTrackers ==
    {val.epoch.total, val.batch.total, train.epoch.total, train.batch.total,
     train.batch_loop.batch.total}
    \cup {train.batch_loop.optimizations[i].optimizer.total : i \in Slots}
    \cup {train.batch_loop.optimizations[i].scheduler.total : i \in Slots}
    \cup {train.batch_loop.optimizations[i].zero_grad.total : i \in Slots}

ResetOps == {"val.reset_on_epoch", "train.reset_on_epoch", "train.reset_on_batch",
             "train.batch_loop.reset_on_batch", "slot.current.reset"}

C10_TotalsMonotonic ==
    [][/\ \A a \in TotalTrackers : \A f \in Fields : heap'[a][f] >= heap[a][f]
       /\ last'.op \in ResetOps => \A a \in TotalTrackers : heap'[a] = heap[a]]_vars

\* A reset cleared batch.current and left the counted batch.total in place.
C10_Witness ==
    /\ last.op \in {"train.reset_on_epoch", "train.batch_loop.reset_on_batch"}
    /\ heap[train.batch_loop.batch.total].ready = 1
    /\ heap[train.batch_loop.batch.current].ready = 0

\* C8: TrainingLoopProgress.increment_epoch_completed() never clears
\* epoch.current: each call raises epoch.total.completed and
\* epoch.current.completed by 1 and leaves ready, started and processed of
\* epoch.current unchanged, so that epoch.current always equals epoch.total,
\* each field being the number of times it was incremented (k after k epochs
\* driven ready, started, processed, completed).
C8_TrainKeepsEpochCurrent ==
    [][/\ last'.op = "train.increment_epoch_completed"
            => /\ heap'[train.epoch.total].completed = heap[train.epoch.total].completed + 1
               /\ heap'[train.epoch.current].completed
                     = heap[train.epoch.current].completed + 1
               /\ \A f \in Fields \ {"completed"} :
                     heap'[train.epoch.current][f] = heap[train.epoch.current][f]
       /\ heap'[train.epoch.current] = heap'[train.epoch.total]
       /\ \A f \in Fields : heap'[train.epoch.total][f] = calls'[f]]_vars

\* Two epochs were driven and the last call left epoch.current at 2 everywhere.
C8_Witness ==
    /\ last.op = "train.increment_epoch_completed"
    /\ calls = [f \in Fields |-> 2]
    /\ heap[train.epoch.current] = Tracker(2, 2, 2, 2)

----------------------------------------------------------------------------
(* Scenario: one Progress built by Progress.from_defaults with any
   enabled/disabled pattern; its Trackers are written and reset directly and
   its increment methods are called, in any order
   (test_progress_geattr_setattr, test_progress_reset, test_base_progress_increment). *)

Sides == {"total", "current"}

InitMutate ==
    /\ \E r \in InitValues, s \in InitValues, p \in InitValues, c \in InitValues :
          LET new == from_defaults(ModuleHeap, r, s, p, c)
          IN  heap = new.heap /\ progress = new.obj
    /\ constructed = heap
    /\ tracker = Null
    /\ val = Null
    /\ train = Null
    /\ pc = "mutate"
    /\ run = NoRun
    /\ calls = NoCalls
    /\ last = NoLast
    /\ err = "ok"
    /\ steps = 0
    /\ completions = NoCompletions(0)
    /\ optimization = Null
    /\ second = Null
    /\ model = Null

\* progress.<side>.<key> = value
ProgressSet(side, key, value) ==
    LET r == Tracker_setattr(heap, progress[side], key, value) IN
    /\ MayStep
    /\ heap' = r.heap
    /\ err' = r.err
    /\ last' = [op |-> IF side = "total" THEN "total.setattr" ELSE "current.setattr",
                key |-> key, value |-> value]
    /\ steps' = steps + 1
    /\ UNCHANGED <<constructed, tracker, progress, calls, val, train, pc, run, others>>

\* progress.<side>.reset()
ProgressReset(side) ==
    /\ MayStep
    /\ heap' = Tracker_reset(heap, progress[side])
    /\ err' = "ok"
    /\ last' = [op |-> IF side = "total" THEN "total.reset" ELSE "current.reset",
                key |-> "", value |-> None]
    /\ steps' = steps + 1
    /\ UNCHANGED <<constructed, tracker, progress, calls, val, train, pc, run, others>>

\* progress.increment_<key>(), interleaved with the writes and resets
ProgressIncrementStep(key) ==
    /\ MayStep
    /\ heap' = Increment(heap, progress, key)
    /\ calls' = [calls EXCEPT ![key] = @ + 1]
    /\ err' = "ok"
    /\ last' = [op |-> "increment", key |-> key, value |-> None]
    /\ steps' = steps + 1
    /\ UNCHANGED <<constructed, tracker, progress, val, train, pc, run, others>>

NextMutate ==
    \/ \E side \in Sides, key \in Fields, value \in (0..MaxVal) \cup {None} :
          ProgressSet(side, key, value)
    \/ \E side \in Sides : ProgressReset(side)
    \/ \E key \in Fields : ProgressIncrementStep(key)

SpecMutate == InitMutate /\ [][NextMutate]_vars

\* C11: a counter that was disabled (None) when its Tracker was constructed is
\* still None in every state reached by direct writes (failing or succeeding,
\* to any field), reset() calls and Progress.increment_*() calls.
C11_DisabledStaysDisabled ==
    \A side \in Sides, f \in Fields :
        constructed[progress[side]][f] = None => heap[progress[side]][f] = None

\* A write to a counter disabled at construction has just failed, after another
\* operation changed a counter of the same Progress.
C11_Witness ==
    /\ last.op = "total.setattr"
    /\ err = "AttributeError"
    /\ constructed[progress.total][last.key] = None
    /\ last.value # None
    /\ heap[progress.total][last.key] = None
    /\ heap # constructed

----------------------------------------------------------------------------
(* Scenario: one OptimizationProgress(optimizer=Progress.from_defaults(
   processed=None, completed=c1), scheduler=Progress.from_defaults(started=None,
   processed=None, completed=c2)) with c1, c2 either 0 or None; zero_grad is the
   class-level default.  Its two Progress objects are incremented and its
   derived step counts are read. *)

InitOptimization ==
    /\ \E c1 \in InitValues, c2 \in InitValues :
          LET o == from_defaults(ModuleHeap, 0, 0, None, c1)
              s == from_defaults(o.heap, 0, None, None, c2)
          IN  /\ heap = s.heap
              /\ optimization = [optimizer |-> o.obj, scheduler |-> s.obj,
                                 zero_grad |-> OptimizationProgress.zero_grad]
    /\ constructed = heap
    /\ tracker = Null
    /\ progress = Null
    /\ val = Null
    /\ train = Null
    /\ pc = "optimization"
    /\ run = NoRun
    /\ calls = NoCalls
    /\ last = NoLast
    /\ err = "ok"
    /\ steps = 0
    /\ completions = NoCompletions(0)
    /\ second = Null
    /\ model = Null

\* optimization.optimizer.increment_<key>()
LoneOptimizerIncrement(key) ==
    /\ MayStep
    /\ Do(Increment(heap, optimization.optimizer, key), "optimizer.increment", key, None)
    /\ UNCHANGED <<calls, completions>>

\* optimization.scheduler.increment_<key>()
LoneSchedulerIncrement(key) ==
    /\ MayStep
    /\ Do(Increment(heap, optimization.scheduler, key), "scheduler.increment", key, None)
    /\ UNCHANGED <<calls, completions>>

\* optimization.optimizer_steps: `last.value` is the value the property returned
LoneOptimizerSteps ==
    /\ MayStep
    /\ Do(heap, "optimizer_steps", "", optimizer_steps(heap, optimization))
    /\ UNCHANGED <<calls, completions>>

\* optimization.scheduler_steps
LoneSchedulerSteps ==
    /\ MayStep
    /\ Do(heap, "scheduler_steps", "", scheduler_steps(heap, optimization))
    /\ UNCHANGED <<calls, completions>>

NextOptimization ==
    \/ \E key \in Fields : LoneOptimizerIncrement(key)
    \/ \E key \in Fields : LoneSchedulerIncrement(key)
    \/ LoneOptimizerSteps
    \/ LoneSchedulerSteps

SpecOptimization == InitOptimization /\ [][NextOptimization]_vars

\* C12: reading optimizer_steps (scheduler_steps) of an OptimizationProgress
\* whose optimizer.total.completed (scheduler.total.completed) is disabled
\* raises an error and returns no value.
C12_DisabledStepsQueryFails ==
    /\ (last.op = "optimizer_steps" /\ heap[optimization.optimizer.total].completed = None)
          => err # "ok"
    /\ (last.op = "scheduler_steps" /\ heap[optimization.scheduler.total].completed = None)
          => err # "ok"

----------------------------------------------------------------------------
(* Scenario: TrainingLoopProgress(batch_loop=BatchLoopProgress(num_optimizers=k));
   the optimizer and scheduler Progress of every slot are incremented, the
   loop-level resets are called and the derived step counts are read, in any
   order. *)

InitSteps ==
    /\ \E k \in 1..MaxOptimizers :
          LET t == NewTrainingLoopProgress(ModuleHeap, k)
          IN  heap = t.heap /\ train = t.obj
    /\ constructed = heap
    /\ tracker = Null
    /\ progress = Null
    /\ val = Null
    /\ pc = "steps"
    /\ run = NoRun
    /\ calls = NoCalls
    /\ last = NoLast
    /\ err = "ok"
    /\ steps = 0
    /\ completions = NoCompletions(Len(train.batch_loop.optimizations))
    /\ optimization = Null
    /\ second = Null
    /\ model = Null

\* train.batch_loop.optimizations[i].optimizer_steps
SlotOptimizerSteps(i) ==
    /\ MayStep
    /\ Do(heap, "optimizer_steps", "",
          optimizer_steps(heap, train.batch_loop.optimizations[i]))
    /\ UNCHANGED <<calls, completions>>

\* train.batch_loop.optimizations[i].scheduler_steps
SlotSchedulerSteps(i) ==
    /\ MayStep
    /\ Do(heap, "scheduler_steps", "",
          scheduler_steps(heap, train.batch_loop.optimizations[i]))
    /\ UNCHANGED <<calls, completions>>

NextSteps ==
    \/ \E i \in Slots, key \in Fields : OptimizerIncrement(i, key)
    \/ \E i \in Slots, key \in Fields : SchedulerIncrement(i, key)
    \/ \E i \in Slots : SlotOptimizerSteps(i)
    \/ \E i \in Slots : SlotSchedulerSteps(i)
    \/ TrainResetOnBatch
    \/ BatchLoopResetOnBatch
    \/ TrainResetOnEpoch
    \/ TrainIncrementEpochCompleted

SpecSteps == InitSteps /\ [][NextSteps]_vars

\* C13: for every optimizer slot, optimizer_steps (scheduler_steps) is the
\* number of increment_completed() calls made on that slot's optimizer
\* (scheduler) Progress since construction, whatever reset_on_batch,
\* reset_on_epoch and increment_epoch_completed calls were interleaved.
C13_StepsCountCompletions ==
    \A i \in Slots :
        /\ optimizer_steps(heap, train.batch_loop.optimizations[i]) = completions[i].optimizer
        /\ scheduler_steps(heap, train.batch_loop.optimizations[i]) = completions[i].scheduler

\* optimizer_steps has just returned 1 for a slot whose optimizer was completed
\* once and whose current Tracker a reset has cleared since.
C13_Witness ==
    \E i \in Slots :
        /\ last.op = "optimizer_steps"
        /\ last.value = 1
        /\ completions[i].optimizer = 1
        /\ heap[train.batch_loop.optimizations[i].optimizer.current].completed = 0

----------------------------------------------------------------------------
(* Scenario: Progress.from_defaults called with any keyword
   arguments among ready, started, processed, completed, each an integer
   start value or None (test_base_progress_from_defaults). *)

\* The keyword arguments: functions from a subset of the field names to values.
Kwargs == UNION {[S -> (0..MaxStart) \cup {None}] : S \in SUBSET Fields}

InitDefaults ==
    /\ heap = ModuleHeap
    /\ constructed = heap
    /\ tracker = Null
    /\ progress = Null
    /\ val = Null
    /\ train = Null
    /\ pc = "construct"
    /\ run = NoRun
    /\ calls = NoCalls
    /\ last = NoLast
    /\ err = "ok"
    /\ steps = 0
    /\ completions = NoCompletions(0)
    /\ optimization = Null
    /\ second = Null
    /\ model = Null

\* progress = Progress.from_defaults(**kwargs); `last.value` keeps kwargs
FromDefaults(kwargs) ==
    LET new == from_defaults_kwargs(heap, kwargs) IN
    /\ pc = "construct"
    /\ heap' = new.heap
    /\ constructed' = new.heap
    /\ progress' = new.obj
    /\ pc' = "built"
    /\ err' = "ok"
    /\ last' = [op |-> "from_defaults", key |-> "", value |-> kwargs]
    /\ UNCHANGED <<tracker, calls, val, train, run, steps, others>>

NextDefaults ==
    \E kwargs \in Kwargs : FromDefaults(kwargs)

SpecDefaults == InitDefaults /\ [][NextDefaults]_vars

\* C14: Progress.from_defaults(**kwargs) yields a Progress whose total and
\* current Trackers both hold, in every field given in kwargs, the value given
\* (a start value, or None for a disabled field) and 0 in every other field.
C14_FromDefaultsPattern ==
    pc = "built" =>
        \A f \in Fields :
            /\ f \in DOMAIN last.value
                  => /\ heap[progress.total][f] = last.value[f]
                     /\ heap[progress.current][f] = last.value[f]
            /\ f \notin DOMAIN last.value
                  => /\ heap[progress.total][f] = 0
                     /\ heap[progress.current][f] = 0

\* Progress.from_defaults(completed=5, started=None) has been built.
C14_Witness ==
    /\ pc = "built"
    /\ DOMAIN last.value = {"completed", "started"}
    /\ last.value["completed"] = 5
    /\ last.value["started"] = None
    /\ heap[progress.total] = Tracker(0, None, 0, 5)
    /\ heap[progress.current] = Tracker(0, None, 0, 5)
    /\ progress.total # progress.current

----------------------------------------------------------------------------
(* overrides/fairscale.py, with fairscale installed.  A model object is the
   sequence of the wrapper layers around a LightningModule, outermost first,
   and the identity of that module; `.module` of a wrapper is the object one
   layer in, and a LightningModule has no attribute `module`. *)

WrapperTypes == {"ShardedDataParallel", "FullyShardedDataParallel",
                 "FlattenParamsWrapper", "_LightningModuleWrapperBase"}
Modules == {"module_a", "module_b"}

RECURSIVE SeqsUpTo(_, _)
SeqsUpTo(S, n) ==
    IF n = 0
    THEN {<<>>}
    ELSE LET shorter == SeqsUpTo(S, n - 1)
         IN  shorter \cup {<<x>> \o s : x \in S, s \in {q \in shorter : Len(q) = n - 1}}

Models == [wrappers : SeqsUpTo(WrapperTypes, MaxWrappers), module : Modules]

\* isinstance(m, cls) for a wrapper class cls
isinstance(m, cls) ==
    Len(m.wrappers) > 0 /\ Head(m.wrappers) = cls

\* m.module, for a wrapper m
module_of(m) ==
    [m EXCEPT !.wrappers = Tail(@)]

\* pytorch_lightning.overrides.base.unwrap_lightning_module(model): takes the
\* LightningModule out of a _LightningModuleWrapperBase, returns any other
\* object as it is.
unwrap_lightning_module(m) ==
    [value |-> IF isinstance(m, "_LightningModuleWrapperBase") THEN module_of(m) ELSE m,
     err   |-> "ok"]

\* unwrap_lightning_module_sharded without its isinstance test (a plausible
\* slip): `.module` of a LightningModule raises AttributeError.
unwrap_lightning_module_sharded_always(wrapped_model) ==
    IF Len(wrapped_model.wrappers) = 0
    THEN [value |-> wrapped_model, err |-> "AttributeError"]
    ELSE unwrap_lightning_module(module_of(wrapped_model))

\* unwrap_lightning_module_sharded(wrapped_model)
unwrap_lightning_module_sharded(wrapped_model) ==
    LET model1 == IF isinstance(wrapped_model, "ShardedDataParallel")
                  THEN module_of(wrapped_model)
                  ELSE wrapped_model
    IN  unwrap_lightning_module(model1)

\* unwrap_lightning_module_full_sharded(wrapped_model)
unwrap_lightning_module_full_sharded(wrapped_model) ==
    LET model1 == IF isinstance(wrapped_model, "FullyShardedDataParallel")
                  THEN module_of(wrapped_model)
                  ELSE wrapped_model
        model2 == IF isinstance(model1, "FlattenParamsWrapper")
                  THEN module_of(model1)
                  ELSE model1
    IN  unwrap_lightning_module(model2)

(* Scenario: the two unwrap functions applied to any model under at most
   MaxWrappers wrapper layers. *)

InitUnwrap ==
    /\ model \in Models
    /\ heap = ModuleHeap
    /\ constructed = heap
    /\ tracker = Null
    /\ progress = Null
    /\ val = Null
    /\ train = Null
    /\ pc = "unwrap"
    /\ run = NoRun
    /\ calls = NoCalls
    /\ last = NoLast
    /\ err = "ok"
    /\ steps = 0
    /\ completions = NoCompletions(0)
    /\ optimization = Null
    /\ second = Null

\* unwrap_lightning_module_sharded(model); `last.value` is the object returned
UnwrapSharded ==
    LET r == unwrap_lightning_module_sharded(model) IN
    /\ pc = "unwrap"
    /\ last' = [op |-> "unwrap_lightning_module_sharded", key |-> "", value |-> r.value]
    /\ err' = r.err
    /\ UNCHANGED <<heap, constructed, tracker, progress, calls, val, train, pc, run, steps, others>>

\* unwrap_lightning_module_full_sharded(model)
UnwrapFullSharded ==
    LET r == unwrap_lightning_module_full_sharded(model) IN
    /\ pc = "unwrap"
    /\ last' = [op |-> "unwrap_lightning_module_full_sharded", key |-> "", value |-> r.value]
    /\ err' = r.err
    /\ UNCHANGED <<heap, constructed, tracker, progress, calls, val, train, pc, run, steps, others>>

NextUnwrap ==
    \/ UnwrapSharded
    \/ UnwrapFullSharded

SpecUnwrap == InitUnwrap /\ [][NextUnwrap]_vars

\* C15: applied to a plain model, one under no wrapper layer at all, both
\* unwrap_lightning_module_sharded and unwrap_lightning_module_full_sharded
\* return that same model and raise nothing.
C15_PlainModelUnchanged ==
    (/\ last.op \in {"unwrap_lightning_module_sharded", "unwrap_lightning_module_full_sharded"}
     /\ Len(model.wrappers) = 0)
        => (err = "ok" /\ last.value = model)

\* unwrap_lightning_module_full_sharded has returned the plain model module_b.
C15_Witness ==
    /\ last.op = "unwrap_lightning_module_full_sharded"
    /\ model = [wrappers |-> <<>>, module |-> "module_b"]
    /\ last.value = model
    /\ err = "ok"

----------------------------------------------------------------------------
\* C16: right after train.increment_epoch_completed() or train.reset_on_epoch(),
\* every enabled field of batch_loop.batch.current and of the optimizer,
\* scheduler and zero_grad current Trackers of every optimizer slot is 0.
C16_EpochCascadeClearsCurrent ==
    last.op \in {"train.increment_epoch_completed", "train.reset_on_epoch"}
        => /\ Cleared(train.batch_loop.batch.current)
           /\ \A i \in Slots :
                 /\ Cleared(train.batch_loop.optimizations[i].optimizer.current)
                 /\ Cleared(train.batch_loop.optimizations[i].scheduler.current)
                 /\ Cleared(train.batch_loop.optimizations[i].zero_grad.current)

\* increment_epoch_completed has run after an increment that counted on the
\* optimizer Progress of a slot: its total is 1 and its current is 0 again.
C16_Witness ==
    /\ last.op = "train.increment_epoch_completed"
    /\ heap[train.epoch.total].completed = 1
    /\ \E i \in Slots :
          /\ heap[train.batch_loop.optimizations[i].optimizer.total].completed = 1
          /\ heap[train.batch_loop.optimizations[i].optimizer.current].completed = 0

\* Every Progress of the FitLoopProgress.
FitProgresses ==
    {train.epoch, train.batch, train.batch_loop.batch, val.epoch, val.batch}
        \cup {train.batch_loop.optimizations[i].optimizer : i \in Slots}
        \cup {train.batch_loop.optimizations[i].scheduler : i \in Slots}
        \cup {train.batch_loop.optimizations[i].zero_grad : i \in Slots}

\* C17: in a FitLoopProgress constructed fresh and driven by increments and
\* resets, every Progress has 0 <= current.F <= total.F in each field F that
\* is enabled on both of its Trackers.
C17_CurrentWithinTotal ==
    \A p \in FitProgresses : \A f \in Fields :
        (heap[p.total][f] # None /\ heap[p.current][f] # None)
            => (0 <= heap[p.current][f] /\ heap[p.current][f] <= heap[p.total][f])

\* A reset has brought a current counter back to 0 below its total.
C17_Witness ==
    /\ last.op \in ResetOps
    /\ \E p \in FitProgresses : \E f \in Fields :
          heap[p.total][f] = 1 /\ heap[p.current][f] = 0

----------------------------------------------------------------------------
(* Scenario: Progress() driven through events in the lifecycle order
   increment_ready, increment_started, increment_processed,
   increment_completed (the order of test_loop_progress_increment_sequence);
   between two events the caller may reset `current`.  `pc` is the call due
   next and `steps` counts the events completed. *)

InitLifecycle ==
    /\ LET new == NewProgress(ModuleHeap, DefaultTracker, DefaultTracker)
       IN  heap = new.heap /\ progress = new.obj
    /\ constructed = heap
    /\ tracker = Null
    /\ val = Null
    /\ train = Null
    /\ pc = "ready"
    /\ run = NoRun
    /\ calls = NoCalls
    /\ last = NoLast
    /\ err = "ok"
    /\ steps = 0
    /\ completions = NoCompletions(0)
    /\ optimization = Null
    /\ second = Null
    /\ model = Null

Life(h, op, next_pc, events) ==
    /\ heap' = h
    /\ pc' = next_pc
    /\ steps' = events
    /\ err' = "ok"
    /\ last' = [op |-> op, key |-> "", value |-> None]
    /\ UNCHANGED <<constructed, tracker, progress, calls, val, train, run, others>>

\* progress.increment_ready(): an event begins
LifeReady ==
    /\ pc = "ready"
    /\ steps < MaxEvents
    /\ Life(increment_ready(heap, progress), "increment_ready", "started", steps)

\* progress.increment_started()
LifeStarted ==
    /\ pc = "started"
    /\ Life(increment_started(heap, progress), "increment_started", "processed", steps)

\* progress.increment_processed()
LifeProcessed ==
    /\ pc = "processed"
    /\ Life(increment_processed(heap, progress), "increment_processed", "completed", steps)

\* progress.increment_completed(): the event ends
LifeCompleted ==
    /\ pc = "completed"
    /\ Life(increment_completed(heap, progress), "increment_completed", "ready", steps + 1)

\* progress.current.reset(), between two events
LifeResetCurrent ==
    /\ pc = "ready"
    /\ steps > 0
    /\ Life(Tracker_reset(heap, progress.current), "current.reset", "ready", steps)

NextLifecycle ==
    \/ LifeReady
    \/ LifeStarted
    \/ LifeProcessed
    \/ LifeCompleted
    \/ LifeResetCurrent

SpecLifecycle == InitLifecycle /\ [][NextLifecycle]_vars

\* ready >= started >= processed >= completed and ready - completed <= 1
InLifecycleOrder(t) ==
    /\ t.ready >= t.started
    /\ t.started >= t.processed
    /\ t.processed >= t.completed
    /\ t.ready - t.completed <= 1

\* C18: a Progress with all four fields enabled, driven only in the lifecycle
\* order ready, started, processed, completed with `current` reset only between
\* events, has total.ready >= total.started >= total.processed >=
\* total.completed and total.ready - total.completed <= 1 in every state, and
\* the same on current.
C18_LifecycleChain ==
    /\ InLifecycleOrder(heap[progress.total])
    /\ InLifecycleOrder(heap[progress.current])

\* The third event has started after a reset of current between events.
C18_Witness ==
    /\ heap[progress.total] = Tracker(3, 3, 2, 2)
    /\ heap[progress.current] = Tracker(1, 1, 0, 0)
    /\ pc = "processed"

----------------------------------------------------------------------------
(* Scenario: a FitLoopProgress is constructed and incremented, then a second
   FitLoopProgress is constructed, and both are incremented further.
   `train` and `val` are the parts of the first, `second` is the second. *)

InitTwoFits ==
    /\ \E k \in 1..MaxOptimizers :
          LET t == NewTrainingLoopProgress(ModuleHeap, k)
              v == NewLoopProgress(t.heap, DefaultTracker)
          IN  heap = v.heap /\ train = t.obj /\ val = v.obj
    /\ constructed = heap
    /\ tracker = Null
    /\ progress = Null
    /\ calls = NoCalls
    /\ pc = "first"
    /\ run = NoRun
    /\ last = NoLast
    /\ err = "ok"
    /\ steps = 0
    /\ completions = NoCompletions(Len(train.batch_loop.optimizations))
    /\ optimization = Null
    /\ second = Null
    /\ model = Null

\* second = FitLoopProgress(train=TrainingLoopProgress(batch_loop=
\* BatchLoopProgress(num_optimizers=k))), k as for the first
ConstructSecond ==
    LET t == NewTrainingLoopProgress(heap, Len(train.batch_loop.optimizations))
        v == NewLoopProgress(t.heap, DefaultTracker)
    IN  /\ pc = "first"
        /\ heap' = v.heap
        /\ constructed' = constructed \o SubSeq(v.heap, Len(heap) + 1, Len(v.heap))
        /\ second' = [train |-> t.obj, val |-> v.obj]
        /\ pc' = "both"
        /\ err' = "ok"
        /\ last' = [op |-> "construct", key |-> "", value |-> None]
        /\ UNCHANGED <<tracker, progress, calls, val, train, run, steps,
                       completions, optimization, model>>

\* The Progress objects of a FitLoopProgress.
ProgressesOf(fit) ==
    {fit.train.epoch, fit.train.batch, fit.train.batch_loop.batch, fit.val.epoch, fit.val.batch}
        \cup {fit.train.batch_loop.optimizations[i][w] :
                 i \in 1..Len(fit.train.batch_loop.optimizations),
                 w \in {"optimizer", "scheduler", "zero_grad"}}

\* The addresses of the Trackers of a FitLoopProgress.
TrackersOf(fit) ==
    UNION {{p.total, p.current} : p \in ProgressesOf(fit)}

\* The Progress objects of the second that the scenario increments, once it
\* is constructed: epoch, batch_loop.batch and those of the optimizer slots.
SecondTargets ==
    IF pc = "both"
    THEN ProgressesOf(second) \ {second.train.batch, second.val.epoch, second.val.batch}
    ELSE {}

\* p.increment_<key>() on a Progress p of the second FitLoopProgress
SecondIncrement(p, key) ==
    /\ pc = "both"
    /\ MayStep
    /\ Do(Increment(heap, p, key), "second.increment", key, None)
    /\ UNCHANGED <<calls, completions>>

NextTwoFits ==
    \/ \E key \in Fields : TrainEpochIncrement(key)
    \/ \E key \in Fields : BatchLoopBatchIncrement(key)
    \/ \E i \in Slots, key \in Fields : OptimizerIncrement(i, key)
    \/ \E i \in Slots, key \in Fields : SchedulerIncrement(i, key)
    \/ \E i \in Slots, key \in Fields : ZeroGradIncrement(i, key)
    \/ ConstructSecond
    \/ \E p \in SecondTargets, key \in Fields : SecondIncrement(p, key)

SpecTwoFits == InitTwoFits /\ [][NextTwoFits]_vars

First == [train |-> train, val |-> val]

\* C19: the FitLoopProgress constructed second, with its BatchLoopProgress,
\* starts with every enabled counter at 0 whatever was counted on the first,
\* has no Tracker in common with the first, and an increment on either leaves
\* every Tracker of the other as it was.
C19_FreshAndSeparate ==
    [][/\ last'.op = "construct"
          => \A a \in TrackersOf(second') : \A f \in Fields : heap'[a][f] \in {0, None}
       /\ pc' = "both"
          => TrackersOf(First) \cap TrackersOf(second') = {}
       /\ (pc = "both" /\ last'.op = "second.increment")
          => \A a \in TrackersOf(First) : heap'[a] = heap[a]
       /\ (pc = "both" /\ last'.op # "second.increment")
          => \A a \in TrackersOf(second) : heap'[a] = heap[a]]_vars

\* An optimizer slot of the first was counted before the second was
\* constructed, and the same slot of the second has been counted since.
C19_Witness ==
    /\ pc = "both"
    /\ last.op = "second.increment"
    /\ heap[train.batch_loop.optimizations[1].optimizer.total].ready = 1
    /\ heap[second.train.batch_loop.optimizations[1].optimizer.total].ready = 0
    /\ heap[second.train.batch_loop.optimizations[1].optimizer.total].started = 1
    /\ heap[train.batch_loop.optimizations[1].optimizer.total].started = 0

----------------------------------------------------------------------------
\* C20: a field that was enabled (an integer) when its Tracker was constructed
\* still holds an integer, and so stays writable and incrementable, in every
\* state reached by direct writes of any value __setattr__ accepts (None
\* included), reset() calls and Progress.increment_*() calls.
C20_EnabledStaysEnabled ==
    \A side \in Sides, f \in Fields :
        constructed[progress[side]][f] # None => heap[progress[side]][f] # None

====
